---- MODULE Spec2Model ----
(***************************************************************************)
(* A model of snake.py: the SnakeGame object, its play loop (run), the     *)
(* food spawner (spawn_food), the high-score file (load_highscore,         *)
(* save_highscore) and the name prompt (handle_game_over).                 *)
(*                                                                         *)
(* Cells and directions are pairs <<row, col>>.  Strings that the program  *)
(* edits character by character (the name buffer, the stored name) are     *)
(* sequences of one-character strings.                                     *)
(***************************************************************************)
EXTENDS Integers, Sequences, FiniteSets, TLC

VARIABLES
    pc,               \* "play": inside run's while loop; "spawn_food": inside
                      \* spawn_food's while True loop with no free cell left;
                      \* "name": inside handle_game_over's loop; "done": returned;
                      \* "crashed": an exception left the program
    snake,            \* self.snake, tail first, head last
    direction,        \* self.direction
    food,             \* self.food
    score,            \* self.score
    running,          \* run's local flag
    highscore_name,   \* self.highscore_name
    highscore_score,  \* self.highscore_score
    name,             \* handle_game_over's local buffer
    stored,           \* the content of highscore.json
    \* history of the run, read by the properties only
    ticks,            \* completed executions of step 2 of the loop body
    nEv,              \* events handled so far in the current frame
    prevDir,          \* direction used by the previous tick (NoDir before the first)
    frameDir,         \* direction held when the current frame began
    lastArrow,        \* new_dir of the latest arrow-key event of the frame
    nArrows,          \* arrow-key events handled so far in the frame
    loaded,           \* what load_highscore returned at startup
    saveCalls,        \* calls of save_highscore
    writes,           \* calls of save_highscore whose json.dump succeeded
    tickResult,       \* what the latest tick did: "none", "collide", "eat" or "move"
    endEv,            \* the QUIT or K_RETURN event handed to handle_game_over, "" if none yet
    nameEv            \* the latest event handed to handle_game_over's loop

vars == << pc, snake, direction, food, score, running, highscore_name,
           highscore_score, name, stored, ticks, nEv, prevDir, frameDir,
           lastArrow, nArrows, loaded, saveCalls, writes, tickResult, endEv,
           nameEv >>

----------------------------------------------------------------------------
(* Program constants *)

WINDOW_W == 640
WINDOW_H == 480
CELL_SIZE == 20

rows == WINDOW_H \div CELL_SIZE
cols == WINDOW_W \div CELL_SIZE

start_r == (WINDOW_H \div CELL_SIZE) \div 2
start_c == (WINDOW_W \div CELL_SIZE) \div 2 - 1

(* Bounds of the exploration *)

MaxTicks == 3     \* ticks of the play loop explored
MaxEvents == 2    \* events delivered within one frame
MaxName == 1      \* characters typed into the name buffer
RandSpan == 1     \* random draws explored: cells within this many steps of the head

----------------------------------------------------------------------------
(* Helpers *)

Range(s) == { s[i] : i \in 1..Len(s) }

Grid == (0..rows - 1) \X (0..cols - 1)

UP == << -1, 0 >>
DOWN == << 1, 0 >>
LEFT == << 0, -1 >>
RIGHT == << 0, 1 >>

\* Python's None where a direction is expected (new_dir = None)
NoDir == << 0, 0 >>

Abs(x) == IF x < 0 THEN -x ELSE x


----------------------------------------------------------------------------
(* The input collaborator: what pygame.event.get() can hand to the loops *)

Quit == [type |-> "QUIT", key |-> "", unicode |-> << >>]
KeyDown(k, u) == [type |-> "KEYDOWN", key |-> k, unicode |-> u]

\* no event yet
NoEvent == [type |-> "NONE", key |-> "", unicode |-> << >>]

PrintableChars == { "a" }

Events ==
    { Quit,
      [type |-> "MOUSEMOTION", key |-> "", unicode |-> << >>],
      KeyDown("K_UP", << >>), KeyDown("K_DOWN", << >>),
      KeyDown("K_LEFT", << >>), KeyDown("K_RIGHT", << >>),
      KeyDown("K_RETURN", << "CR" >>), KeyDown("K_BACKSPACE", << "BS" >>),
      KeyDown("K_TAB", << "TAB" >>),
      KeyDown("K_a", << "a" >>) }

\* a loop that never looks for QUIT
IsQuitNever(e) == FALSE

\* lines 85, 211
IsQuit(e) == e.type = "QUIT"

\* lines 89, 213
IsKeyDown(e) == e.type = "KEYDOWN"

\* lines 90-99: the direction an arrow key stands for, None for any other key
KeyDir(key) ==
    CASE key = "K_UP" -> UP
      [] key = "K_DOWN" -> DOWN
      [] key = "K_LEFT" -> LEFT
      [] key = "K_RIGHT" -> RIGHT
      [] OTHER -> NoDir

\* a filter that lets every arrow key through
AlwaysAccept(new_dir, dir) == TRUE

\* line 103: new_dir is not the opposite of the current direction
NotOpposite(new_dir, dir) ==
    << new_dir[1] + dir[1], new_dir[2] + dir[2] >> # << 0, 0 >>

\* lines 102-104: the direction after one key event whose direction is new_dir
Deliver(new_dir, dir) ==
    IF new_dir # NoDir
    THEN IF NotOpposite(new_dir, dir) THEN new_dir ELSE dir
    ELSE dir

\* a test that takes every one-character key for a printable one
IsCharAnyKey(u) == Len(u) = 1

\* line 226: len(event.unicode) == 1 and event.unicode.isprintable()
IsChar(u) == Len(u) = 1 /\ u[1] \in PrintableChars

----------------------------------------------------------------------------
(* The high-score file *)

Sentinel == [name |-> << "-", "-", "-" >>, score |-> 0]

PlayerName == << "P", "l", "a", "y", "e", "r" >>

\* A file content: fmt says whether the file exists and parses to a JSON object;
\* for an object, hasName/name give its "name" member and sk/sv its "score"
\* member: absent, an integer, a string of digits spelling sv, another string,
\* or null.
File(fmt, hasName, nm, sk, sv) ==
    [fmt |-> fmt, hasName |-> hasName, name |-> nm, sk |-> sk, sv |-> sv]

MissingFile == File("missing", FALSE, << >>, "absent", 0)
GarbageFile == File("garbage", FALSE, << >>, "absent", 0)

\* line 198: what json.dump({"name": name, "score": int(score)}) leaves in the file
RecordFile(nm, sc) == File("object", TRUE, nm, "int", sc)

UnreadableFile == File("unreadable", FALSE, << >>, "absent", 0)
ArrayFile == File("array", FALSE, << >>, "absent", 0)

\* the exceptions the file code can meet, all of them subclasses of Exception
ExceptionClasses ==
    { "FileNotFoundError", "PermissionError", "OSError", "JSONDecodeError",
      "AttributeError", "ValueError", "TypeError" }

\* lines 188-190: the body of load_highscore's try: the exception it raises
\* ("none" when it returns) and the pair it returns
LoadAttempt(file) ==
    LET raise(x) == [exc |-> x, value |-> Sentinel] IN
    CASE file.fmt = "missing" -> raise("FileNotFoundError")       \* open
      [] file.fmt = "unreadable" -> raise("PermissionError")      \* open
      [] file.fmt = "garbage" -> raise("JSONDecodeError")         \* json.load
      [] file.fmt = "array" -> raise("AttributeError")            \* data.get
      [] file.sk = "badstr" -> raise("ValueError")                \* int("x")
      [] file.sk = "null" -> raise("TypeError")                   \* int(None)
      [] OTHER ->
           [exc |-> "none",
            value |-> [name |-> IF file.hasName THEN file.name ELSE Sentinel.name,
                       score |-> IF file.sk = "absent" THEN 0 ELSE file.sv]]

\* a handler that expects file-system errors only
LoadCatchesOSError(exc) == exc \in { "FileNotFoundError", "PermissionError", "OSError" }

\* line 191: except Exception
LoadCatches(exc) == exc \in ExceptionClasses

\* lines 185-192: what load_highscore returns
load_highscore(file) ==
    IF LoadAttempt(file).exc = "none" THEN LoadAttempt(file).value ELSE Sentinel

\* lines 185-192: load_highscore raises to its caller
load_raises(file) ==
    LoadAttempt(file).exc # "none" /\ ~LoadCatches(LoadAttempt(file).exc)

\* lines 56, 79: __init__ goes on to run unless load_highscore raised
Started(file) == IF load_raises(file) THEN "crashed" ELSE "play"

\* lines 194-201: the file after save_highscore(name, score); out is what the
\* file system did: "ok", "open_fails" (nothing touched) or "dump_fails" (the
\* file was truncated by open(path, "w") and the write did not complete)
WriteOutcomes == { "ok", "open_fails", "dump_fails" }

\* a save that writes the score without the name
save_score_only(file, nm, sc, out) ==
    CASE out = "ok" -> File("object", FALSE, << >>, "int", sc)
      [] out = "open_fails" -> file
      [] OTHER -> GarbageFile

save_highscore(file, nm, sc, out) ==
    CASE out = "ok" -> RecordFile(nm, sc)
      [] out = "open_fails" -> file
      [] OTHER -> GarbageFile

\* lines 196-198: the exception the body of save_highscore's try raises
SaveAttempt(out) == IF out = "ok" THEN "none" ELSE "OSError"

\* a handler that expects encoding errors only
SaveCatchesValueError(exc) == exc = "ValueError"

\* line 199: except Exception
SaveCatches(exc) == exc \in ExceptionClasses

\* lines 194-201: save_highscore raises to its caller
save_raises(out) == SaveAttempt(out) # "none" /\ ~SaveCatches(SaveAttempt(out))

\* a comparison that also saves on a tie
BeatsOrTies(sc, top) == sc >= top

\* line 218
BeatsTop(sc, top) == sc > top

----------------------------------------------------------------------------
(* Movement and food *)

SnakeHead(s) == s[Len(s)]

\* a move that stops at nothing: the board edge is not wrapped
NewHeadNoWrap(s, dir) ==
    << SnakeHead(s)[1] + dir[1], SnakeHead(s)[2] + dir[2] >>

\* lines 108-112
NewHead(s, dir) ==
    << (SnakeHead(s)[1] + dir[1]) % rows, (SnakeHead(s)[2] + dir[2]) % cols >>

\* a collision test that looks at the head cell only
CollidesHead(cell, s) == cell = SnakeHead(s)

\* a collision test that lets the head onto the cell the tail is about to leave
CollidesBody(cell, s) == cell \in Range(Tail(s))

\* line 115
Collides(cell, s) == cell \in Range(s)

\* an eating tick that pops the tail all the same
GrownPopsTail(s, cell) == Tail(Append(s, cell))

\* line 120
Grown(s, cell) == Append(s, cell)

\* a move that forgets to pop the tail
MovedNoPop(s, cell) == Append(s, cell)

\* lines 120, 129
Moved(s, cell) == Tail(Append(s, cell))

\* a food test that reads the food cell as (col, row)
EatsSwapped(cell, f) == cell = << f[2], f[1] >>

\* line 123
Eats(cell, f) == cell = f

\* lines 70-71: the draws explored, the cells within RandSpan steps of the head
RandCells(s) ==
    { << (SnakeHead(s)[1] + dr) % rows, (SnakeHead(s)[2] + dc) % cols >> :
        << dr, dc >> \in { d \in (-RandSpan..RandSpan) \X (-RandSpan..RandSpan) :
                            Abs(d[1]) + Abs(d[2]) <= RandSpan } }

\* line 72
IsFree(cell, s) == cell \notin Range(s)

\* lines 69-74: the loop can only leave through a cell that is not in the snake
NoFreeCell(s) == \A cell \in Grid : ~IsFree(cell, s)

\* a spawner that checks the snake as it was before the new head was appended
SpawnIgnoringHead(s) ==
    { cell \in RandCells(s) : IsFree(cell, SubSeq(s, 1, Len(s) - 1)) }

\* lines 69-74: the cells spawn_food can end on
SpawnChoices(s) == { cell \in RandCells(s) : IsFree(cell, s) }

\* line 49
InitialSnake ==
    << << start_r, start_c >>, << start_r, start_c + 1 >>, << start_r, start_c + 2 >> >>

\* the contents of highscore.json the program is started on
AceName == << "A", "c", "e" >>

StoredFiles ==
    { MissingFile, GarbageFile,
      RecordFile(AceName, 1),
      File("object", FALSE, << >>, "str", 1),
      File("object", TRUE, AceName, "null", 0) }

----------------------------------------------------------------------------
(* The state after SnakeGame() and the first lines of run() *)

Init ==
    /\ snake = InitialSnake
    /\ direction = RIGHT
    /\ food \in SpawnChoices(InitialSnake)
    /\ score = 0
    /\ running = TRUE
    /\ stored \in StoredFiles
    /\ loaded = load_highscore(stored)
    /\ pc = Started(stored)
    /\ highscore_name = loaded.name
    /\ highscore_score = loaded.score
    /\ name = << >>
    /\ ticks = 0
    /\ nEv = 0
    /\ prevDir = NoDir
    /\ frameDir = RIGHT
    /\ lastArrow = NoDir
    /\ nArrows = 0
    /\ saveCalls = 0
    /\ writes = 0
    /\ tickResult = "none"
    /\ endEv = ""
    /\ nameEv = NoEvent

----------------------------------------------------------------------------
(* run, step 1: one iteration of "for event in pygame.event.get()" *)

RunEvent(e) ==
    /\ pc = "play"
    /\ nEv < MaxEvents
    /\ running' = IF IsQuit(e) THEN FALSE ELSE running
    /\ direction' = IF IsKeyDown(e)
                    THEN Deliver(KeyDir(e.key), direction)
                    ELSE direction
    /\ nEv' = nEv + 1
    /\ IF e.type = "KEYDOWN" /\ KeyDir(e.key) # NoDir
       THEN lastArrow' = KeyDir(e.key) /\ nArrows' = nArrows + 1
       ELSE UNCHANGED << lastArrow, nArrows >>
    /\ UNCHANGED << pc, snake, food, score, highscore_name, highscore_score,
                    name, stored, ticks, prevDir, frameDir, loaded, saveCalls,
                    writes, tickResult, endEv, nameEv >>

\* a loop that never ends: while True
AfterBodyForever(run) == "play"

\* where run goes after the loop body: back to the loop test
AfterBody(run) == IF run THEN "play" ELSE "name"

(* run, steps 2 and 3: the event list is exhausted; move, test, eat or pop *)
RunUpdate ==
    /\ pc = "play"
    /\ ticks < MaxTicks
    /\ LET new_head == NewHead(snake, direction) IN
       IF Collides(new_head, snake)
       THEN /\ running' = FALSE
            /\ pc' = AfterBody(FALSE)
            /\ tickResult' = "collide"
            /\ UNCHANGED << snake, food, score >>
       ELSE IF Eats(new_head, food)
       THEN /\ snake' = Grown(snake, new_head)
            /\ score' = score + 1
            /\ running' = running
            /\ tickResult' = "eat"
            /\ IF NoFreeCell(Grown(snake, new_head))
               THEN pc' = "spawn_food" /\ food' = food
               ELSE /\ food' \in SpawnChoices(Grown(snake, new_head))
                    /\ pc' = AfterBody(running)
       ELSE /\ snake' = Moved(snake, new_head)
            /\ pc' = AfterBody(running)
            /\ tickResult' = "move"
            /\ UNCHANGED << food, score, running >>
    /\ ticks' = ticks + 1
    /\ prevDir' = direction
    /\ frameDir' = direction
    /\ nEv' = 0
    /\ lastArrow' = NoDir
    /\ nArrows' = 0
    /\ UNCHANGED << direction, highscore_name, highscore_score, name, stored,
                    loaded, saveCalls, writes, endEv, nameEv >>

----------------------------------------------------------------------------
(* handle_game_over: one iteration of its "for event in pygame.event.get()" *)

\* line 223
DropLast(s) == IF Len(s) = 0 THEN s ELSE SubSeq(s, 1, Len(s) - 1)

\* lines 215-216
FinalName(buf) == IF buf = << >> THEN PlayerName ELSE buf

GameOverEvent(e) ==
    /\ pc = "name"
    /\ nameEv' = e
    /\ endEv' = IF e.type = "QUIT" THEN "QUIT"
                ELSE IF e.type = "KEYDOWN" /\ e.key = "K_RETURN" THEN "K_RETURN"
                ELSE endEv
    /\ IF IsQuit(e)
       THEN /\ pc' = "done"
            /\ UNCHANGED << name, stored, highscore_name, highscore_score,
                            saveCalls, writes >>
       ELSE IF IsKeyDown(e) /\ e.key = "K_RETURN"
       THEN /\ name' = FinalName(name)
            /\ IF BeatsTop(score, highscore_score)
               THEN \E out \in WriteOutcomes :
                      /\ stored' = save_highscore(stored, FinalName(name), score, out)
                      /\ saveCalls' = saveCalls + 1
                      /\ writes' = IF out = "ok" THEN writes + 1 ELSE writes
                      /\ IF save_raises(out)
                         THEN /\ pc' = "crashed"
                              /\ UNCHANGED << highscore_name, highscore_score >>
                         ELSE /\ pc' = "done"
                              /\ highscore_name' = FinalName(name)
                              /\ highscore_score' = score
               ELSE /\ pc' = "done"
                    /\ UNCHANGED << stored, highscore_name, highscore_score,
                                    saveCalls, writes >>
       ELSE IF IsKeyDown(e) /\ e.key = "K_BACKSPACE"
       THEN /\ name' = DropLast(name)
            /\ UNCHANGED << pc, stored, highscore_name, highscore_score,
                            saveCalls, writes >>
       ELSE IF IsKeyDown(e) /\ IsChar(e.unicode)
       THEN /\ Len(name) < MaxName
            /\ name' = name \o e.unicode
            /\ UNCHANGED << pc, stored, highscore_name, highscore_score,
                            saveCalls, writes >>
       ELSE UNCHANGED << pc, name, stored, highscore_name, highscore_score,
                         saveCalls, writes >>
    /\ UNCHANGED << snake, direction, food, score, running, ticks, nEv,
                    prevDir, frameDir, lastArrow, nArrows, loaded, tickResult >>

----------------------------------------------------------------------------

Next ==
    \/ \E e \in Events : RunEvent(e)
    \/ RunUpdate
    \/ \E e \in Events : GameOverEvent(e)

Spec == Init /\ [][Next]_vars

----------------------------------------------------------------------------
(* Late in a game.  A player who steers the head along the path           *)
(*   row start_r from column start_c rightwards and around the edge, one   *)
(*   step down, the next row rightwards and around, one step down, ...     *)
(* and finds each new food on the next cell of that path never pops the    *)
(* tail: the snake is the first n cells of the path, the score is n - 3.   *)
(* The path starts with InitialSnake and visits every cell of the grid.    *)

PathCell(k) ==
    << (start_r + (k \div cols)) % rows,
       (start_c - (k \div cols) + (k % cols)) % cols >>

PathSnake(n) == [i \in 1..n |-> PathCell(i - 1)]

InitLate ==
    /\ snake = PathSnake(rows * cols - 2)
    /\ direction = RIGHT
    /\ food \in { cell \in Grid : IsFree(cell, snake) }
    /\ score = Len(snake) - Len(InitialSnake)
    /\ running = TRUE
    /\ stored \in StoredFiles
    /\ loaded = load_highscore(stored)
    /\ pc = Started(stored)
    /\ highscore_name = loaded.name
    /\ highscore_score = loaded.score
    /\ name = << >>
    /\ ticks = 0
    /\ nEv = 0
    /\ prevDir = RIGHT
    /\ frameDir = RIGHT
    /\ lastArrow = NoDir
    /\ nArrows = 0
    /\ saveCalls = 0
    /\ writes = 0
    /\ tickResult = "none"
    /\ endEv = ""
    /\ nameEv = NoEvent

SpecLate == InitLate /\ [][Next]_vars

----------------------------------------------------------------------------
(* Starting on any content of highscore.json, with the first food right    *)
(* ahead of the head.                                                      *)

AllFiles ==
    StoredFiles \cup
    { UnreadableFile, ArrayFile,
      RecordFile(AceName, -1),
      File("object", TRUE, AceName, "badstr", 0),
      File("object", TRUE, AceName, "absent", 0) }

InitLoad ==
    /\ snake = InitialSnake
    /\ direction = RIGHT
    /\ food = << start_r, start_c + 3 >>
    /\ score = 0
    /\ running = TRUE
    /\ stored \in AllFiles
    /\ loaded = load_highscore(stored)
    /\ pc = Started(stored)
    /\ highscore_name = loaded.name
    /\ highscore_score = loaded.score
    /\ name = << >>
    /\ ticks = 0
    /\ nEv = 0
    /\ prevDir = NoDir
    /\ frameDir = RIGHT
    /\ lastArrow = NoDir
    /\ nArrows = 0
    /\ saveCalls = 0
    /\ writes = 0
    /\ tickResult = "none"
    /\ endEv = ""
    /\ nameEv = NoEvent

SpecLoad == InitLoad /\ [][Next]_vars

----------------------------------------------------------------------------
(* At the edge of the board.  Before its first food the three-cell snake   *)
(* can be steered to any place; here its head has just reached a corner of *)
(* the grid, coming straight from any of the four sides (two of them       *)
(* across the edge).                                                       *)

\* the cell k steps from cell c in direction d, by the arithmetic of lines 110-111
Shift(c, d, k) == << (c[1] + k * d[1]) % rows, (c[2] + k * d[2]) % cols >>

StraightSnake(h, d) == << Shift(h, d, -2), Shift(h, d, -1), h >>

Corners == { << 0, 0 >>, << rows - 1, cols - 1 >> }

InitEdge ==
    /\ direction \in { UP, DOWN, LEFT, RIGHT }
    /\ \E h \in Corners : snake = StraightSnake(h, direction)
    /\ food \in SpawnChoices(snake)
    /\ score = 0
    /\ running = TRUE
    /\ stored = MissingFile
    /\ loaded = load_highscore(stored)
    /\ pc = Started(stored)
    /\ highscore_name = loaded.name
    /\ highscore_score = loaded.score
    /\ name = << >>
    /\ ticks = 0
    /\ nEv = 0
    /\ prevDir = direction
    /\ frameDir = direction
    /\ lastArrow = NoDir
    /\ nArrows = 0
    /\ saveCalls = 0
    /\ writes = 0
    /\ tickResult = "move"
    /\ endEv = ""
    /\ nameEv = NoEvent

SpecEdge == InitEdge /\ [][Next]_vars

----------------------------------------------------------------------------
(* Properties of the play loop *)

\* a step that is one tick of the play loop (steps 2 and 3 of the loop body)
IsTick == ticks' = ticks + 1

Opposite(d) == << -d[1], -d[2] >>

\* C1: for two consecutive ticks, the direction the later tick moves in is never
\* the exact inverse of the direction the earlier tick moved in, whatever key
\* events arrive between the two moves.
C1_NoReversal ==
    [][(IsTick /\ prevDir # NoDir) => direction # Opposite(prevDir)]_vars

\* C2: when several arrow-key events arrive within one frame, the tick moves in
\* the direction obtained by delivering only the most recent of them to the
\* direction held when the frame began.
C2_LatestOnly ==
    [][(IsTick /\ nArrows >= 2) => direction = Deliver(lastArrow, frameDir)]_vars

\* C3: every tick tests the new head against the snake as it is before the
\* append and the pop: on any cell of it, the tail cell included, the tick ends
\* the game and leaves snake, score and food alone; on none of them, the new
\* head is appended and the tick does not end play.
C3_CollisionTest ==
    [][IsTick =>
         LET h == NewHead(snake, direction) IN
         IF \E i \in 1..Len(snake) : snake[i] = h
         THEN /\ running' = FALSE /\ pc' = "name"
              /\ snake' = snake /\ score' = score /\ food' = food
         ELSE /\ snake'[Len(snake')] = h
              /\ Len(snake') \in { Len(snake), Len(snake) + 1 }
              /\ running' = running
              /\ pc' # "done"]_vars

\* a tick has ended the game on the cell the tail was about to leave
C3_TailHit ==
    /\ tickResult = "collide"
    /\ pc = "name"
    /\ NewHead(snake, direction) = snake[1]

\* C4: in a tick that does not end the game, a new head on the food cell makes
\* the snake the old snake plus the new head and adds exactly 1 to the score;
\* any other new head makes it the old snake without its first cell plus the new
\* head and leaves the score alone.
C4_EatOrMove ==
    [][(IsTick /\ tickResult' # "collide") =>
         LET h == NewHead(snake, direction) IN
         IF h = food
         THEN /\ snake' = snake \o << h >>
              /\ score' = score + 1
         ELSE /\ snake' = SubSeq(snake, 2, Len(snake)) \o << h >>
              /\ score' = score]_vars

\* the snake has eaten twice and then moved on
C4_AteAndMoved ==
    /\ tickResult = "move"
    /\ score = 2
    /\ Len(snake) = Len(InitialSnake) + 2

\* the state C5 starts from, with no event delivered in the frame
C5_Start ==
    /\ pc = "play" /\ running /\ nEv = 0
    /\ snake = << << 12, 15 >>, << 12, 16 >>, << 12, 17 >> >>
    /\ direction = RIGHT
    /\ food = << 12, 18 >>
    /\ score = 0
    /\ rows = 24 /\ cols = 32

\* C5, as stated: one tick from that state yields snake [(12,16),(12,17),(12,18)],
\* score 1, a food cell other than (12,18), and play continues.
C5_Original ==
    [][(C5_Start /\ IsTick) =>
         /\ snake' = << << 12, 16 >>, << 12, 17 >>, << 12, 18 >> >>
         /\ score' = 1
         /\ food' # << 12, 18 >>
         /\ pc' = "play" /\ running']_vars

\* C5, amended: one tick from that state yields snake
\* [(12,15),(12,16),(12,17),(12,18)], score 1, a food cell other than (12,18),
\* and play continues.
C5_Amended ==
    [][(C5_Start /\ IsTick) =>
         /\ snake' = << << 12, 15 >>, << 12, 16 >>, << 12, 17 >>, << 12, 18 >> >>
         /\ score' = 1
         /\ food' # << 12, 18 >>
         /\ pc' = "play" /\ running']_vars

\* the first tick has eaten the food at (12,18)
C5_FirstTickAte ==
    /\ ticks = 1 /\ tickResult = "eat" /\ pc = "play" /\ running
    /\ snake[Len(snake)] = << 12, 18 >>
    /\ score = 1

\* C6: every call of spawn_food returns, with the food on a cell the snake does
\* not occupy, also when the snake fills the grid after eating.
C6_SpawnReturns ==
    /\ pc # "spawn_food"
    /\ tickResult = "eat" => \A i \in 1..Len(snake) : snake[i] # food

\* C8: once a QUIT event has been handled in a frame, the snake does not move,
\* no food is eaten or respawned and the score does not change, in that frame or
\* later.
C8_QuitStopsPlay ==
    [][(~running) => (snake' = snake /\ food' = food /\ score' = score)]_vars

----------------------------------------------------------------------------
(* Properties of the end of the session *)

\* C7, as stated: a save is attempted if and only if the final score is strictly
\* greater than the high score loaded at startup, whichever way the session ends.
C7_Original ==
    pc = "done" => (saveCalls > 0 <=> score > loaded.score)

\* C7, amended: a save is attempted if and only if the final score is strictly
\* greater than the high score loaded at startup and the name entry is ended by
\* Enter; a session ended by QUIT during name entry attempts no save.
C7_Amended ==
    pc = "done" =>
        (saveCalls > 0 <=> (score > loaded.score /\ endEv = "K_RETURN"))

\* a session whose score beat the loaded one by one has attempted its save
C7_Saved ==
    /\ pc = "done" /\ endEv = "K_RETURN"
    /\ saveCalls = 1
    /\ loaded.score = 1
    /\ score = 2

\* C9: a QUIT event handled during name entry ends the session at once and saves
\* nothing: the file and the in-memory high score stay as they were, whatever
\* the score and the name buffer.
C9_QuitNoSave ==
    [][(pc = "name" /\ endEv' = "QUIT") =>
         /\ pc' = "done"
         /\ stored' = stored
         /\ highscore_name' = highscore_name
         /\ highscore_score' = highscore_score
         /\ saveCalls' = saveCalls]_vars

\* name entry was left by QUIT with a typed name and a score that beat the top
C9_QuitWithRecord ==
    /\ pc = "done" /\ endEv = "QUIT"
    /\ name # << >>
    /\ score > highscore_score

\* C10: the file is written at most once per session and never while the play
\* loop runs; a completed write leaves the record (finalized name, final score),
\* and the in-memory high score is set to the same pair.
C10_WriteOnce ==
    [][(stored' # stored \/ saveCalls' # saveCalls \/ writes' # writes) =>
         LET final == IF name = << >> THEN << "P", "l", "a", "y", "e", "r" >> ELSE name IN
         /\ pc = "name" /\ pc' = "done"
         /\ saveCalls = 0 /\ saveCalls' = 1
         /\ highscore_name' = final
         /\ highscore_score' = score
         /\ writes' # writes =>
              /\ writes' = 1
              /\ stored' = [fmt |-> "object", hasName |-> TRUE, name |-> final,
                            sk |-> "int", sv |-> score]
              /\ load_highscore(stored') = [name |-> final, score |-> score]]_vars

\* an empty buffer was confirmed and the record written under the default name
C10_Written ==
    /\ pc = "done" /\ writes = 1
    /\ highscore_name = << "P", "l", "a", "y", "e", "r" >>
    /\ stored.name = highscore_name /\ stored.sv = score

----------------------------------------------------------------------------
(* Properties of the snake and the food *)

\* C11: in every state of play the snake has no duplicate cells and has at
\* least one cell.
C11_NoDuplicates ==
    /\ Len(snake) >= 1
    /\ \A i, j \in 1..Len(snake) : i # j => snake[i] # snake[j]

\* the snake has grown to five cells and turned a corner
C11_BentSnake ==
    /\ Len(snake) = 5
    /\ snake[1][1] # snake[5][1]
    /\ snake[1][2] # snake[5][2]

\* C12: after initialisation and after every completed tick the food is set and
\* is on no cell of the snake, the new head of an eating tick included.
C12_FoodOffSnake ==
    pc # "spawn_food" =>
        /\ food \in (0..rows - 1) \X (0..cols - 1)
        /\ \A i \in 1..Len(snake) : snake[i] # food

\* an eating tick has completed and play goes on with the respawned food
C12_Respawned ==
    /\ tickResult = "eat" /\ pc = "play"
    /\ score = 2

\* x + dx on a ring of n places, for dx in -1..1
WrapStep(x, dx, n) ==
    IF x + dx = n THEN 0 ELSE IF x + dx = -1 THEN n - 1 ELSE x + dx

\* C13: movement is toroidal: the new head is the head moved one step with each
\* coordinate wrapped (cols-1 going right gives 0, 0 going left gives cols-1,
\* likewise for rows); every snake cell and the food always lie on the grid; and
\* a tick ends the game only when the new head is on the snake, never because
\* an edge was reached.
C13_Toroidal ==
    /\ [](/\ \A i \in 1..Len(snake) :
               snake[i][1] \in 0..rows - 1 /\ snake[i][2] \in 0..cols - 1
          /\ food[1] \in 0..rows - 1 /\ food[2] \in 0..cols - 1)
    /\ [][IsTick =>
            LET old == snake[Len(snake)]
                h == << WrapStep(old[1], direction[1], rows),
                        WrapStep(old[2], direction[2], cols) >>
            IN  IF \E i \in 1..Len(snake) : snake[i] = h
                THEN tickResult' = "collide"
                ELSE /\ tickResult' # "collide"
                     /\ snake'[Len(snake')] = h
                     /\ running' = running]_vars

\* two ticks took the head over the right edge to column 0 and then over the
\* bottom edge to row 0, and play goes on
C13_Wrapped ==
    /\ ticks = 2 /\ tickResult = "move" /\ pc = "play"
    /\ snake = << << rows - 1, cols - 1 >>, << rows - 1, 0 >>, << 0, 0 >> >>

----------------------------------------------------------------------------
(* Properties of the high-score file *)

\* C14: load_highscore never raises to its caller, and it returns exactly the
\* sentinel ("---", 0) whenever the file is missing, cannot be read, or does not
\* hold a record (not JSON, not an object, or a score that is no number).
C14_LoadSentinel ==
    /\ pc # "crashed"
    /\ (saveCalls = 0 /\ (\/ stored.fmt \in { "missing", "unreadable", "garbage", "array" }
                          \/ stored.sk \in { "badstr", "null" }))
         => /\ loaded = [name |-> << "-", "-", "-" >>, score |-> 0]
            /\ highscore_name = << "-", "-", "-" >>
            /\ highscore_score = 0

\* a game was played to its end on a file that does not parse
C14_PlayedOnGarbage ==
    /\ pc = "done" /\ saveCalls = 0
    /\ stored.fmt = "garbage"
    /\ highscore_score = 0

\* C15: a write failure inside save_highscore is swallowed: nothing is raised,
\* and the Enter that asked for the save still ends the session the normal way,
\* with the in-memory high score set.
C15_SaveSwallowed ==
    /\ [](pc # "crashed")
    /\ [][(saveCalls' = saveCalls + 1) =>
            /\ pc' = "done"
            /\ nameEv'.key = "K_RETURN"
            /\ highscore_score' = score
            /\ highscore_name' = name']_vars

\* a save was attempted, the write failed, and the session ended normally
C15_FailedWrite ==
    /\ pc = "done" /\ endEv = "K_RETURN"
    /\ saveCalls = 1 /\ writes = 0
    /\ highscore_score = score

\* C19: in every reachable state the in-memory high score is a non-negative
\* integer, whatever content of the file load_highscore accepted.
C19_NonNegative ==
    highscore_score \in Nat

----------------------------------------------------------------------------
(* Properties of name entry and of the phases *)

C17_OneEvent ==
    [][/\ (nEv' = nEv + 1) =>
            IF nArrows' = nArrows + 1
            THEN direction' = IF lastArrow' = Opposite(direction)
                              THEN direction ELSE lastArrow'
            ELSE direction' = direction
       /\ IsTick => direction' = direction]_vars

\* the inverse arrow was the only event of the frame and was ignored
C17_InverseIgnored ==
    /\ pc = "play" /\ nArrows = 1 /\ nEv = 1
    /\ lastArrow = Opposite(frameDir)
    /\ direction = frameDir

\* the phase of the session: Playing 0, AwaitingName 1, Done 2
Phase(p) == IF p \in { "play", "spawn_food" } THEN 0 ELSE IF p = "name" THEN 1 ELSE 2

\* C18: the phase only moves forward, Playing to AwaitingName to Done; once a
\* self-collision has ended play no further tick is made, and snake, score and
\* food keep their values through name entry to the end of the session.
C18_PhasesForward ==
    [][/\ Phase(pc') \in { Phase(pc), Phase(pc) + 1 }
       /\ pc' # "crashed"
       /\ (tickResult = "collide" \/ Phase(pc) > 0) =>
            /\ Phase(pc) > 0
            /\ ~IsTick
            /\ snake' = snake /\ score' = score /\ food' = food]_vars

\* a game ended by self-collision went through name entry to its end
C18_CollidedAndDone ==
    /\ pc = "done" /\ tickResult = "collide"
    /\ nameEv.key = "K_RETURN"
    /\ score = 1

\* C20: the snake always has 3 + score cells; the score is never negative, never
\* falls, rises by at most 1 and only in a tick; the snake never shrinks.
C20_LengthIsScore ==
    /\ [](Len(snake) = 3 + score /\ score >= 0)
    /\ [][/\ score' \in { score, score + 1 }
          /\ score' # score => IsTick
          /\ Len(snake') >= Len(snake)]_vars

\* the snake has eaten twice
C20_TwoEaten ==
    /\ score = 2 /\ Len(snake) = 5
    /\ tickResult = "eat"
====
